---- MODULE Spec2Model ----
(***************************************************************************)
(* The broker deployment of pkg/deploy/broker.go: Broker() and deploy(),   *)
(* the reporter calls they make, the collaborators they call and the       *)
(* descriptor file broker-info.subm with its backups.                      *)
(*                                                                         *)
(* Every invocation of Broker is a process p that walks through the        *)
(* statements of Broker/deploy, one action per collaborator call together  *)
(* with the reporter calls and assignments around it.  Collaborators that  *)
(* talk to the cluster succeed or fail nondeterministically.  The          *)
(* descriptor store (package datafile) and the globalnet helpers are not   *)
(* part of the sources at hand and follow the written design.              *)
(* SubctlData.CustomDomains, ClientToken and BrokerURL are not tracked.    *)
(***************************************************************************)
EXTENDS FiniteSets, Integers, Sequences, TLC

\* How many invocations of Broker a behaviour holds.
MaxRuns == 3

\* The invocations: Spec runs them one at a time (the caller serialises).
Procs == {1, 2}
SerialProcs == {1}

Nil == "nil"

brokerDetailsFilename == "broker-info.subm"
OtherSubmFile == "other.subm"

ServiceDiscovery == "service-discovery"
Connectivity == "connectivity"
Globalnet == "globalnet"

ValidComponents == {ServiceDiscovery, Connectivity}

\* The component lists a caller passes in BrokerSpec.Components.
ComponentChoices ==
    { {}, {Connectivity}, {ServiceDiscovery, Connectivity},
      {Connectivity, Globalnet}, {"bogus"} }

ValidCIDR == "242.0.0.0/29"
CIDRChoices == {ValidCIDR, "not-a-cidr"}
ClusterSizeChoices == {0, 3}

\* BrokerOptions, as far as Broker reads it.
BrokerOptions ==
    [ Components : ComponentChoices,
      GlobalnetEnabled : BOOLEAN,
      GlobalnetCIDRRange : CIDRChoices,
      DefaultGlobalnetClusterSize : ClusterSizeChoices,
      IpsecSubmFile : {"", OtherSubmFile} ]

NoOptions ==
    [ Components |-> {}, GlobalnetEnabled |-> FALSE, GlobalnetCIDRRange |-> "",
      DefaultGlobalnetClusterSize |-> 0, IpsecSubmFile |-> "" ]

\* No file at a path, and no descriptor object in memory.
NoFile == [ exists |-> FALSE ]

\* The descriptor a caller pinned with IpsecSubmFile = other.subm.
OtherSubmData ==
    [ IPSecPSK |-> 0, ServiceDiscovery |-> FALSE, Components |-> {Connectivity} ]

VARIABLES
    pc,            \* pc[p]: the statement invocation p is at
    request,       \* request[p]: the options as the caller passed them
    options,       \* options[p]: the BrokerOptions struct, which Broker writes to
    componentSet,  \* componentSet[p]: the local of Broker
    subctlData,    \* subctlData[p]: the descriptor being built, or NoFile
    ret,           \* ret[p]: the error Broker returned (Nil for nil)
    events,        \* events[p]: the reporter calls of the run, in order
    calls,         \* calls[p]: the collaborator calls of the run, in order
    runId,         \* runId[p]: the number of the run, 1 for the first
    startFile,     \* startFile[p]: broker-info.subm when the run began
    prevData,      \* prevData[p]: what the run before wrote, when it succeeded
                   \*              on the same request; else NoFile
    file,          \* the content of broker-info.subm, or NoFile
    backups,       \* the backup files, oldest first
    written,       \* every descriptor written to broker-info.subm, in order
    everPinned,    \* some invocation so far pinned a descriptor path
    everUnreadable,\* some invocation so far could not read a broker-info.subm
                   \* that was there
    runs,          \* invocations so far
    overlapped,    \* some invocation began while another was running
    status,        \* the cli.Status of the cliReporter
    lastCall       \* the last call made on the cliReporter

vars ==
    << pc, request, options, componentSet, subctlData, ret, events, calls,
       runId, startFile, prevData, file, backups, written, everPinned,
       everUnreadable, runs, overlapped, status, lastCall >>

(***************************************************************************)
(* Orders the statements of Broker are not in: the descriptor written      *)
(* before the config map is created; no backup; the descriptor written     *)
(* before the backup; the config map created before the existing one is    *)
(* checked.                                                                *)
(***************************************************************************)
StepOrderWriteBeforeConfigMap ==
    << "isValidComponents", "checkGlobalnetConfig", "ForCluster",
       "brokerEnsure", "ForOperator", "submarineropEnsure", "brokercrEnsure",
       "NewFromFile", "NewFromCluster", "BackupIfExists",
       "ValidateExistingGlobalNetworks", "WriteToFile",
       "CreateGlobalnetConfigMap" >>

StepOrderNoBackup ==
    << "isValidComponents", "checkGlobalnetConfig", "ForCluster",
       "brokerEnsure", "ForOperator", "submarineropEnsure", "brokercrEnsure",
       "NewFromFile", "NewFromCluster",
       "ValidateExistingGlobalNetworks", "CreateGlobalnetConfigMap",
       "WriteToFile" >>

StepOrderWriteBeforeBackup ==
    << "isValidComponents", "checkGlobalnetConfig", "ForCluster",
       "brokerEnsure", "ForOperator", "submarineropEnsure", "brokercrEnsure",
       "NewFromFile", "NewFromCluster", "WriteToFile", "BackupIfExists",
       "ValidateExistingGlobalNetworks", "CreateGlobalnetConfigMap" >>

StepOrderCreateBeforeValidate ==
    << "isValidComponents", "checkGlobalnetConfig", "ForCluster",
       "brokerEnsure", "ForOperator", "submarineropEnsure", "brokercrEnsure",
       "NewFromFile", "NewFromCluster", "BackupIfExists",
       "CreateGlobalnetConfigMap", "ValidateExistingGlobalNetworks",
       "WriteToFile" >>

(***************************************************************************)
(* The order of the statements of Broker and deploy.                       *)
(***************************************************************************)
\* The old file moved aside before the descriptor is built.
StepOrderBackupBeforeBuild ==
    << "isValidComponents", "checkGlobalnetConfig", "ForCluster",
       "brokerEnsure", "ForOperator", "submarineropEnsure", "brokercrEnsure",
       "NewFromFile", "BackupIfExists", "NewFromCluster",
       "ValidateExistingGlobalNetworks", "CreateGlobalnetConfigMap",
       "WriteToFile" >>

StepOrder ==
    << "isValidComponents", "checkGlobalnetConfig", "ForCluster",
       "brokerEnsure", "ForOperator", "submarineropEnsure", "brokercrEnsure",
       "NewFromFile", "NewFromCluster", "BackupIfExists",
       "ValidateExistingGlobalNetworks", "CreateGlobalnetConfigMap",
       "WriteToFile" >>

IndexOf(step) == CHOOSE i \in 1..Len(StepOrder) : StepOrder[i] = step

After(step) ==
    IF IndexOf(step) < Len(StepOrder) THEN StepOrder[IndexOf(step) + 1]
    ELSE "returned"

\* errors.Wrap: nil stays nil.
Wrap(err, msg) == IF err = Nil THEN Nil ELSE msg

Err(ok) == IF ok THEN Nil ELSE "error"

(***************************************************************************)
(* Reporter calls and collaborator calls, as the run's observable trace.   *)
(***************************************************************************)
Started(msg) == [ kind |-> "Started", arg |-> msg ]
Succeeded(msg) == [ kind |-> "Succeeded", arg |-> msg ]
Warned(msg) == [ kind |-> "Warned", arg |-> msg ]
Failed(msg) == [ kind |-> "Failed", arg |-> msg ]
EndedWith(err) == [ kind |-> "EndedWith", arg |-> err ]

Call(op, ok, comps) == [ op |-> op, ok |-> ok, components |-> comps ]

(***************************************************************************)
(* Validation.                                                             *)
(***************************************************************************)
\* A check that lets every component set through.
isValidComponentsSkipped(set) == Nil

\* A check without the test for the empty set.
isValidComponentsNoEmptyCheck(set) ==
    IF \E c \in set : c \notin ValidComponents THEN "unknown component"
    ELSE Nil

isValidComponents(set) ==
    IF Cardinality(set) < 1
        THEN "at least one component must be provided for deployment"
    ELSE IF \E c \in set : c \notin ValidComponents
        THEN "unknown component"
    ELSE Nil

\* globalnet.GetValidClusterSize: the resolved size and the error.
AvailableSize(cidr) == IF cidr = ValidCIDR THEN 8 ELSE 0

GetValidClusterSize(cidr, size) ==
    IF cidr # ValidCIDR THEN [ size |-> 0, err |-> "invalid CIDR" ]
    ELSE IF size = 0 THEN [ size |-> AvailableSize(cidr) \div 2, err |-> Nil ]
    ELSE IF AvailableSize(cidr) % size = 0 /\ size <= AvailableSize(cidr) \div 2
        THEN [ size |-> size, err |-> Nil ]
    ELSE [ size |-> 0, err |-> "invalid cluster size" ]

IsValidCIDR(cidr) == IF cidr = ValidCIDR THEN Nil ELSE "invalid CIDR"

\* checkGlobalnetConfig: the options it leaves behind and the error.
checkGlobalnetConfig(opts) ==
    IF ~opts.GlobalnetEnabled THEN [ options |-> opts, err |-> Nil ]
    ELSE LET r == GetValidClusterSize(opts.GlobalnetCIDRRange,
                                      opts.DefaultGlobalnetClusterSize)
             o == [opts EXCEPT !.DefaultGlobalnetClusterSize = r.size]
         IN IF r.err # Nil THEN [ options |-> o, err |-> r.err ]
            ELSE [ options |-> o, err |-> IsValidCIDR(opts.GlobalnetCIDRRange) ]

(***************************************************************************)
(* The descriptor store.                                                   *)
(***************************************************************************)
\* datafile.NewFromFile(broker-info.subm): fails when there is no file, and
\* may fail on a file that is there (unreadable, corrupt).
NewFromFileOk(f, readable) == f # NoFile /\ readable

\* datafile.NewFromCluster: the secret of the pinned file, or a new one.
NewFromCluster(path, f, fresh) ==
    [ IPSecPSK |-> IF path = brokerDetailsFilename THEN f.IPSecPSK
                   ELSE IF path = OtherSubmFile THEN OtherSubmData.IPSecPSK
                   ELSE fresh,
      ServiceDiscovery |-> FALSE,
      Components |-> {} ]

\* datafile.BackupIfExists: the file moves to a backup name no file has.
\* A backup that removes the old file and keeps no copy.
BackupIfExistsDropsFile(f, bk) ==
    [ file |-> NoFile, backups |-> bk,
      newFilename |-> IF f = NoFile THEN "" ELSE "broker-info.subm.backup" ]

BackupIfExists(f, bk) ==
    IF f = NoFile THEN [ file |-> f, backups |-> bk, newFilename |-> "" ]
    ELSE [ file |-> NoFile, backups |-> Append(bk, f),
           newFilename |-> "broker-info.subm.backup" ]

\* SubctlData.WriteToFile: all of the descriptor or nothing.
WriteToFile(f, data, ok) == IF ok THEN data ELSE f

(***************************************************************************)
(* Frames.                                                                 *)
(***************************************************************************)
Goto(p, step) == pc' = [pc EXCEPT ![p] = step]
Return(p, err) == /\ pc' = [pc EXCEPT ![p] = "returned"]
                  /\ ret' = [ret EXCEPT ![p] = err]
\* The next statement; falling off the end of Broker returns nil.
Continue(p) == /\ pc' = [pc EXCEPT ![p] = After(pc[p])]
               /\ UNCHANGED ret
\* An error that is dropped: the run goes on to the next statement.
ReturnIfErrorSwallowed(p, err, msg) == Continue(p)

\* if err != nil { return errors.Wrap(err, msg) }
ReturnIfError(p, err, msg) ==
    IF err # Nil THEN Return(p, Wrap(err, msg)) ELSE Continue(p)

Report(p, evs) == events' = [events EXCEPT ![p] = @ \o evs]
Invoked(p, c) == calls' = [calls EXCEPT ![p] = Append(@, c)]

disk == << file, backups, written >>
run == << runId, startFile, prevData, everPinned, runs, overlapped >>
cli == << status, lastCall >>
history == << run, everUnreadable >>
locals == << request, options, componentSet, subctlData >>

(***************************************************************************)
(* The cliReporter: each method forwards to a cli.Status.  The status      *)
(* keeps the unit that is open, the annotations queued for it, and the     *)
(* unit that was closed last with its result and its annotations.          *)
(***************************************************************************)
MaxQueue == 2
Formats == { "", "done %s" }
ArgChoices == { << "x" >> }
ErrChoices == { Nil, "failed" }

\* fmt.Sprintf(message, args...) on the formats and arguments above.
Sprintf(message, args) ==
    CASE message = "" /\ args = << "x" >> -> "%!(EXTRA string=x)"
      [] message = "done %s" /\ args = << "x" >> -> "done x"

NoUnit == [ ended |-> FALSE ]
NewStatus == [ open |-> FALSE, current |-> "", queue |-> << >>, last |-> NoUnit ]
NoCall == [ kind |-> "none" ]

\* cli.Status.Start
StatusStart(st, msg) == [st EXCEPT !.open = TRUE, !.current = msg]

Annotation(severity, msg) == [ severity |-> severity, text |-> msg ]
\* cli.Status.QueueSuccessMessage, QueueWarningMessage, QueueFailureMessage
QueueSuccessMessage(st, msg) ==
    [st EXCEPT !.queue = Append(@, Annotation("Success", msg))]
QueueWarningMessage(st, msg) ==
    [st EXCEPT !.queue = Append(@, Annotation("Warning", msg))]
QueueFailureMessage(st, msg) ==
    [st EXCEPT !.queue = Append(@, Annotation("Failure", msg))]

\* cli.CheckForError
CheckForError(err) == IF err = Nil THEN "Success" ELSE "Failure"

\* cli.Status.End: close the open unit with the result and its annotations.
StatusEnd(st, result) ==
    IF st.open
    THEN [ open |-> FALSE, current |-> "", queue |-> << >>,
           last |-> [ ended |-> TRUE, unit |-> st.current, result |-> result,
                      messages |-> st.queue ] ]
    ELSE st

cliReporterStarted(st, message, args) == StatusStart(st, Sprintf(message, args))

\* Succeeded without the test for the empty message.
cliReporterSucceededNoCheck(st, message, args) ==
    QueueSuccessMessage(st, Sprintf(message, args))

cliReporterSucceeded(st, message, args) ==
    IF message # "" THEN QueueSuccessMessage(st, Sprintf(message, args)) ELSE st

cliReporterWarned(st, message, args) ==
    IF message # "" THEN QueueWarningMessage(st, message) ELSE st

cliReporterFailed(st, message, args) ==
    IF message # "" THEN QueueFailureMessage(st, message) ELSE st

cliReporterEndedWith(st, err) == StatusEnd(st, CheckForError(err))

Init ==
    /\ pc = [p \in Procs |-> "idle"]
    /\ request = [p \in Procs |-> NoOptions]
    /\ options = [p \in Procs |-> NoOptions]
    /\ componentSet = [p \in Procs |-> {}]
    /\ subctlData = [p \in Procs |-> NoFile]
    /\ ret = [p \in Procs |-> Nil]
    /\ events = [p \in Procs |-> << >>]
    /\ calls = [p \in Procs |-> << >>]
    /\ runId = [p \in Procs |-> 0]
    /\ startFile = [p \in Procs |-> NoFile]
    /\ prevData = [p \in Procs |-> NoFile]
    /\ file = NoFile
    /\ backups = << >>
    /\ written = << >>
    /\ everPinned = FALSE
    /\ everUnreadable = FALSE
    /\ runs = 0
    /\ overlapped = FALSE
    /\ status = NewStatus
    /\ lastCall = NoCall

(***************************************************************************)
(* Broker is called: line 55-56.                                           *)
(***************************************************************************)
Invoke(p) ==
    /\ pc[p] \in {"idle", "returned"}
    /\ runs < MaxRuns
    /\ \E req \in BrokerOptions :
        /\ request' = [request EXCEPT ![p] = req]
        /\ options' = [options EXCEPT ![p] = req]
        /\ componentSet' = [componentSet EXCEPT ![p] = req.Components]
        /\ prevData' = [prevData EXCEPT ![p] =
                IF pc[p] = "returned" /\ ret[p] = Nil /\ request[p] = req
                THEN file ELSE NoFile]
        /\ everPinned' = (everPinned \/ req.IpsecSubmFile # "")
    /\ subctlData' = [subctlData EXCEPT ![p] = NoFile]
    /\ ret' = [ret EXCEPT ![p] = Nil]
    /\ events' = [events EXCEPT ![p] = << >>]
    /\ calls' = [calls EXCEPT ![p] = << >>]
    /\ runId' = [runId EXCEPT ![p] = runs + 1]
    /\ startFile' = [startFile EXCEPT ![p] = file]
    /\ runs' = runs + 1
    /\ Goto(p, StepOrder[1])
    /\ overlapped' = (overlapped \/ \E q \in Procs \ {p} :
                                        pc[q] \notin {"idle", "returned"})
    /\ UNCHANGED << disk, everUnreadable, cli >>

(***************************************************************************)
(* Broker, lines 58-73: validation and the kubeconfig.                     *)
(***************************************************************************)
\* Lines 58-64 without the globalnet component added.
StepIsValidComponentsNoGlobalnet(p) ==
    /\ pc[p] = "isValidComponents"
    /\ ReturnIfError(p, isValidComponents(componentSet[p]),
                     "invalid components parameter")
    /\ UNCHANGED << locals, events, calls, disk, history, cli >>

StepIsValidComponents(p) ==
    /\ pc[p] = "isValidComponents"
    /\ LET err == isValidComponents(componentSet[p]) IN
        /\ ReturnIfError(p, err, "invalid components parameter")
        /\ componentSet' = [componentSet EXCEPT ![p] =
                IF err = Nil /\ options[p].GlobalnetEnabled
                THEN @ \cup {Globalnet} ELSE @]
    /\ UNCHANGED << request, options, subctlData, events, calls, disk, history, cli >>

StepCheckGlobalnetConfig(p) ==
    /\ pc[p] = "checkGlobalnetConfig"
    /\ LET r == checkGlobalnetConfig(options[p]) IN
        /\ options' = [options EXCEPT ![p] = r.options]
        /\ ReturnIfError(p, r.err, "invalid GlobalCIDR configuration")
    /\ UNCHANGED << request, componentSet, subctlData, events, calls, disk,
                    history, cli >>

StepForCluster(p) ==
    /\ pc[p] = "ForCluster"
    /\ \E ok \in BOOLEAN :
        /\ Invoked(p, Call("restconfig.ForCluster", ok, {}))
        /\ ReturnIfError(p, Err(ok), "the provided kubeconfig is invalid")
    /\ UNCHANGED << locals, events, disk, history, cli >>

(***************************************************************************)
(* deploy, lines 129-164.                                                  *)
(***************************************************************************)
StepBrokerEnsure(p) ==
    /\ pc[p] = "brokerEnsure"
    /\ \E ok \in BOOLEAN :
        /\ Report(p, << Started("Setting up broker RBAC"), EndedWith(Err(ok)) >>)
        /\ Invoked(p, Call("broker.Ensure", ok, options[p].Components))
        /\ ReturnIfError(p, Err(ok), "error setting up broker RBAC")
    /\ UNCHANGED << locals, disk, history, cli >>

StepForOperator(p) ==
    /\ pc[p] = "ForOperator"
    /\ \E ok \in BOOLEAN :
        /\ Report(p, << Started("Deploying the Submariner operator") >>)
        /\ Invoked(p, Call("image.ForOperator", ok, {}))
        /\ ReturnIfError(p, Err(ok), "error getting Operator image")
    /\ UNCHANGED << locals, disk, history, cli >>

\* submarinerop.Ensure is handed the reporter; the calls it makes on it
\* itself are outside Broker and deploy and are not part of the trace.
StepSubmarineropEnsure(p) ==
    /\ pc[p] = "submarineropEnsure"
    /\ \E ok \in BOOLEAN :
        /\ Invoked(p, Call("submarinerop.Ensure", ok, {}))
        /\ Report(p, << EndedWith(Err(ok)) >>)
        /\ ReturnIfError(p, Err(ok), "error deploying the operator")
    /\ UNCHANGED << locals, disk, history, cli >>

StepBrokercrEnsure(p) ==
    /\ pc[p] = "brokercrEnsure"
    /\ \E ok \in BOOLEAN :
        /\ Invoked(p, Call("brokercr.Ensure", ok, options[p].Components))
        /\ Report(p, << Started("Deploying the broker"),
                        IF ok THEN Succeeded("The broker has been deployed")
                        ELSE Failed("Broker deployment failed") >>)
        /\ ReturnIfError(p, Err(ok), "error deploying the broker")
    /\ UNCHANGED << locals, disk, history, cli >>

(***************************************************************************)
(* Broker, lines 79-89: reuse the PSK of an existing broker-info.subm.     *)
(***************************************************************************)
\* The existing file is found but its path is not taken over.
PSKDecisionNoReuse(opts, loaded) ==
    IF loaded
    THEN [ options |-> opts,
           report |-> << Warned("Reusing IPsec PSK from existing broker-info.subm") >> ]
    ELSE [ options |-> opts,
           report |-> << Succeeded("A new IPsec PSK will be generated for broker-info.subm") >> ]

\* The test of the load error inverted.
PSKDecisionInverted(opts, loaded) ==
    IF ~loaded
    THEN [ options |-> [opts EXCEPT !.IpsecSubmFile = brokerDetailsFilename],
           report |-> << Warned("Reusing IPsec PSK from existing broker-info.subm") >> ]
    ELSE [ options |-> opts,
           report |-> << Succeeded("A new IPsec PSK will be generated for broker-info.subm") >> ]

PSKDecision(opts, loaded) ==
    IF loaded
    THEN [ options |-> [opts EXCEPT !.IpsecSubmFile = brokerDetailsFilename],
           report |-> << Warned("Reusing IPsec PSK from existing broker-info.subm") >> ]
    ELSE [ options |-> opts,
           report |-> << Succeeded("A new IPsec PSK will be generated for broker-info.subm") >> ]

StepNewFromFile(p) ==
    /\ pc[p] = "NewFromFile"
    /\ IF options[p].IpsecSubmFile = ""
       THEN \E readable \in BOOLEAN :
            LET loaded == NewFromFileOk(file, readable)
                d == PSKDecision(options[p], loaded)
            IN /\ Invoked(p, Call("datafile.NewFromFile", loaded, {}))
               /\ options' = [options EXCEPT ![p] = d.options]
               /\ Report(p, << Started("Creating broker-info.subm file") >>
                            \o d.report)
               /\ everUnreadable' = (everUnreadable \/ (file # NoFile /\ ~loaded))
       ELSE /\ Report(p, << Started("Creating broker-info.subm file") >>)
            /\ UNCHANGED << options, calls, everUnreadable >>
    /\ Continue(p)
    /\ UNCHANGED << request, componentSet, subctlData, disk, run, cli >>

(***************************************************************************)
(* Broker, lines 91-94: build the descriptor.                              *)
(***************************************************************************)
StepNewFromCluster(p) ==
    /\ pc[p] = "NewFromCluster"
    /\ \E cluster \in BOOLEAN :
        LET ok == /\ cluster
                  /\ options[p].IpsecSubmFile = brokerDetailsFilename => file # NoFile
        IN /\ Invoked(p, Call("datafile.NewFromCluster", ok, {}))
           /\ subctlData' = [subctlData EXCEPT ![p] =
                    IF ok THEN NewFromCluster(options[p].IpsecSubmFile, file, runId[p])
                    ELSE @]
           /\ ReturnIfError(p, Err(ok), "error retrieving preparing the subm data file")
    /\ UNCHANGED << request, options, componentSet, events, disk, history, cli >>

(***************************************************************************)
(* Broker, lines 96-110: move the old file aside, fill in the descriptor.  *)
(***************************************************************************)
StepBackupIfExists(p) ==
    /\ pc[p] = "BackupIfExists"
    /\ \E renamed \in BOOLEAN :
        LET ok == file = NoFile \/ renamed
            r == BackupIfExists(file, backups)
        IN /\ Invoked(p, Call("datafile.BackupIfExists", ok, {}))
           /\ ReturnIfError(p, Err(ok), "error backing up the brokerfile")
           /\ IF ok
              THEN /\ file' = r.file
                   /\ backups' = r.backups
                   /\ Report(p, IF r.newFilename # ""
                                THEN << Succeeded("Backed up previous broker-info.subm") >>
                                ELSE << >>)
                   /\ subctlData' = [subctlData EXCEPT ![p] =
                        [@ EXCEPT !.ServiceDiscovery = ServiceDiscovery \in componentSet[p],
                                  !.Components = componentSet[p]]]
              ELSE UNCHANGED << file, backups, events, subctlData >>
    /\ UNCHANGED << request, options, componentSet, written, history, cli >>

(***************************************************************************)
(* Broker, lines 112-121: the globalnet config map.                        *)
(***************************************************************************)
StepValidateExistingGlobalNetworks(p) ==
    /\ pc[p] = "ValidateExistingGlobalNetworks"
    /\ IF options[p].GlobalnetEnabled
       THEN \E ok \in BOOLEAN :
            /\ Invoked(p, Call("globalnet.ValidateExistingGlobalNetworks", ok, {}))
            /\ ReturnIfError(p, Err(ok), "error validating existing globalCIDR configmap")
       ELSE /\ Continue(p)
            /\ UNCHANGED calls
    /\ UNCHANGED << locals, events, disk, history, cli >>

StepCreateGlobalnetConfigMap(p) ==
    /\ pc[p] = "CreateGlobalnetConfigMap"
    /\ \E ok \in BOOLEAN :
        /\ Invoked(p, Call("broker.CreateGlobalnetConfigMap", ok, {}))
        /\ ReturnIfError(p, Err(ok), "error creating globalCIDR configmap on Broker")
    /\ UNCHANGED << locals, events, disk, history, cli >>

(***************************************************************************)
(* Broker, lines 123-126: write the descriptor.                            *)
(***************************************************************************)
StepWriteToFile(p) ==
    /\ pc[p] = "WriteToFile"
    /\ \E ok \in BOOLEAN :
        /\ Invoked(p, Call("datafile.WriteToFile", ok, {}))
        /\ file' = WriteToFile(file, subctlData[p], ok)
        /\ written' = IF ok THEN Append(written, subctlData[p]) ELSE written
        /\ Report(p, << EndedWith(Err(ok)) >>)
        /\ ReturnIfError(p, Err(ok), "error writing the broker information")
    /\ UNCHANGED << locals, backups, history, cli >>

Step(p) ==
    \/ StepIsValidComponents(p)
    \/ StepCheckGlobalnetConfig(p)
    \/ StepForCluster(p)
    \/ StepBrokerEnsure(p)
    \/ StepForOperator(p)
    \/ StepSubmarineropEnsure(p)
    \/ StepBrokercrEnsure(p)
    \/ StepNewFromFile(p)
    \/ StepNewFromCluster(p)
    \/ StepBackupIfExists(p)
    \/ StepValidateExistingGlobalNetworks(p)
    \/ StepCreateGlobalnetConfigMap(p)
    \/ StepWriteToFile(p)

\* One invocation at a time.
Next == \E p \in SerialProcs : Invoke(p) \/ Step(p)

Spec == Init /\ [][Next]_vars

(***************************************************************************)
(* Two callers of Broker on the same broker-info.subm, their statements    *)
(* interleaved in any order.                                               *)
(***************************************************************************)
MaxConcRuns == 2

ConcRequests ==
    { req \in BrokerOptions :
        /\ req.Components = {Connectivity}
        /\ req.GlobalnetCIDRRange = ValidCIDR
        /\ req.DefaultGlobalnetClusterSize = 0
        /\ req.IpsecSubmFile = "" }

ConcInvoke(p) ==
    /\ runs < MaxConcRuns
    /\ Invoke(p)
    /\ request'[p] \in ConcRequests

ConcNext == \E p \in Procs : ConcInvoke(p) \/ Step(p)

ConcSpec == Init /\ [][ConcNext]_vars

(***************************************************************************)
(* A caller of the cliReporter: any method, any message, in any order.     *)
(***************************************************************************)
brokerState ==
    << pc, ret, events, calls, locals, disk, history >>

Called(kind, message, err) ==
    lastCall' = [ kind |-> kind, message |-> message, err |-> err ]

QueueHasRoom(message) == message = "" \/ Len(status.queue) < MaxQueue

CallStarted ==
    /\ \E message \in Formats, args \in ArgChoices :
        /\ status' = cliReporterStarted(status, message, args)
        /\ Called("Started", message, Nil)
    /\ UNCHANGED brokerState

CallSucceeded ==
    /\ \E message \in Formats, args \in ArgChoices :
        /\ QueueHasRoom(message)
        /\ status' = cliReporterSucceeded(status, message, args)
        /\ Called("Succeeded", message, Nil)
    /\ UNCHANGED brokerState

CallWarned ==
    /\ \E message \in Formats, args \in ArgChoices :
        /\ QueueHasRoom(message)
        /\ status' = cliReporterWarned(status, message, args)
        /\ Called("Warned", message, Nil)
    /\ UNCHANGED brokerState

CallFailed ==
    /\ \E message \in Formats, args \in ArgChoices :
        /\ QueueHasRoom(message)
        /\ status' = cliReporterFailed(status, message, args)
        /\ Called("Failed", message, Nil)
    /\ UNCHANGED brokerState

CallEndedWith ==
    /\ \E err \in ErrChoices :
        /\ status' = cliReporterEndedWith(status, err)
        /\ Called("EndedWith", "", err)
    /\ UNCHANGED brokerState

NextReporter ==
    \/ CallStarted
    \/ CallSucceeded
    \/ CallWarned
    \/ CallFailed
    \/ CallEndedWith

SpecReporter == Init /\ [][NextReporter]_vars

(***************************************************************************)
(* Properties of a run's trace.                                            *)
(***************************************************************************)
Range(s) == { s[i] : i \in 1..Len(s) }
CallsOf(p, op) == SelectSeq(calls[p], LAMBDA c : c.op = op)
Count(p, ev) == Cardinality({ i \in 1..Len(events[p]) : events[p][i] = ev })
Returned(p) == pc[p] = "returned"

\* The steps C1 orders.
ExternalSteps ==
    << "broker.Ensure", "image.ForOperator", "submarinerop.Ensure",
       "brokercr.Ensure", "broker.CreateGlobalnetConfigMap",
       "datafile.WriteToFile" >>

ExternalCalls(p) == SelectSeq(calls[p], LAMBDA c : c.op \in Range(ExternalSteps))

\* C1: the external steps of a run are invoked in the order RBAC ensure,
\* operator image resolution, operator ensure, broker resource ensure,
\* addressing config creation, descriptor write, none skipped; a step that
\* returned an error is the last one invoked, and Broker has then returned
\* a non-nil error.
C1_FixedOrderShortCircuit ==
    \A p \in Procs :
        LET s == ExternalCalls(p) IN
        /\ Len(s) <= Len(ExternalSteps)
        /\ \A i \in 1..Len(s) :
            /\ s[i].op = ExternalSteps[i]
            /\ ~s[i].ok => /\ i = Len(s)
                           /\ calls[p][Len(calls[p])] = s[i]
                           /\ Returned(p)
                           /\ ret[p] # Nil

C1_Witness ==
    \E p \in Procs :
        /\ Returned(p)
        /\ ret[p] # Nil
        /\ Len(ExternalCalls(p)) = 5
        /\ ~ExternalCalls(p)[5].ok

\* The message Broker wraps a failure of each step in.
StepMessage(op) ==
    CASE op = "broker.Ensure" -> "error setting up broker RBAC"
      [] op = "image.ForOperator" -> "error getting Operator image"
      [] op = "submarinerop.Ensure" -> "error deploying the operator"
      [] op = "brokercr.Ensure" -> "error deploying the broker"
      [] op = "datafile.NewFromCluster" -> "error retrieving preparing the subm data file"
      [] op = "datafile.BackupIfExists" -> "error backing up the brokerfile"
      [] op = "globalnet.ValidateExistingGlobalNetworks" ->
            "error validating existing globalCIDR configmap"
      [] op = "broker.CreateGlobalnetConfigMap" ->
            "error creating globalCIDR configmap on Broker"
      [] op = "datafile.WriteToFile" -> "error writing the broker information"
      [] OTHER -> "no message"

PhaseSteps ==
    { "broker.Ensure", "image.ForOperator", "submarinerop.Ensure",
      "brokercr.Ensure", "datafile.NewFromCluster", "datafile.BackupIfExists",
      "globalnet.ValidateExistingGlobalNetworks",
      "broker.CreateGlobalnetConfigMap", "datafile.WriteToFile" }

LastStarted(p) ==
    CHOOSE i \in 0..Len(events[p]) :
        /\ i > 0 => events[p][i].kind = "Started"
        /\ \A j \in (i+1)..Len(events[p]) : events[p][j].kind # "Started"

\* A failure was reported for the phase started last.
FailureReported(p) ==
    /\ LastStarted(p) > 0
    /\ \E j \in (LastStarted(p)+1)..Len(events[p]) :
        \/ events[p][j].kind = "Failed"
        \/ events[p][j].kind = "EndedWith" /\ events[p][j].arg # Nil

\* C2: when a step that can fail after the first Started call fails, Broker
\* has reported a failure for the phase started last (Failed, or EndedWith
\* of a non-nil error) before it returns, and returns the error wrapped in
\* the message of that step.
C2_EveryStepFailureReported ==
    \A p \in Procs :
        ( /\ Returned(p)
          /\ Len(calls[p]) > 0
          /\ calls[p][Len(calls[p])].op \in PhaseSteps
          /\ ~calls[p][Len(calls[p])].ok )
        => /\ ret[p] = StepMessage(calls[p][Len(calls[p])].op)
           /\ FailureReported(p)

\* What C3 calls an invalid request, and a kubeconfig that does not resolve.
InvalidComponents(req) ==
    req.Components = {} \/ ~(req.Components \subseteq {ServiceDiscovery, Connectivity})
InvalidGlobalnet(req) == checkGlobalnetConfig(req).err # Nil
KubeconfigFailed(p) ==
    \E i \in 1..Len(calls[p]) :
        calls[p][i].op = "restconfig.ForCluster" /\ ~calls[p][i].ok

\* C3: a run on an invalid component set, an invalid globalnet configuration
\* or a kubeconfig that cannot be resolved returns an error and has made no
\* reporter call, no call to a cluster-mutating collaborator and no
\* operation on the descriptor file.
C3_ValidationFailsBeforeAnyEffect ==
    \A p \in Procs :
        ( /\ Returned(p)
          /\ \/ InvalidComponents(request[p])
             \/ InvalidGlobalnet(request[p])
             \/ KubeconfigFailed(p) )
        => /\ ret[p] # Nil
           /\ events[p] = << >>
           /\ \A i \in 1..Len(calls[p]) : calls[p][i].op = "restconfig.ForCluster"
           /\ file = startFile[p]

C3_Witness ==
    \E p \in Procs :
        /\ Returned(p)
        /\ InvalidComponents(request[p])
        /\ request[p].Components # {}
        /\ file # NoFile

AllCallsOk(p) == \A i \in 1..Len(calls[p]) : calls[p][i].ok

\* C4: a run with no pinned path that follows a fully successful run on the
\* same request, and whose collaborators all succeed, returns nil; the
\* descriptor of the first run is then the newest backup, broker-info.subm
\* holds the new descriptor, and the new PSK is the PSK of the first.
C4_SecondRunReusesPSK ==
    \A p \in Procs :
        ( /\ Returned(p)
          /\ prevData[p] # NoFile
          /\ request[p].IpsecSubmFile = ""
          /\ AllCallsOk(p) )
        => /\ ret[p] = Nil
           /\ Len(backups) > 0
           /\ backups[Len(backups)] = prevData[p]
           /\ file = subctlData[p]
           /\ file # NoFile
           /\ file.IPSecPSK = prevData[p].IPSecPSK

C4_Witness ==
    \E p \in Procs :
        /\ Returned(p)
        /\ prevData[p] # NoFile
        /\ request[p].IpsecSubmFile = ""
        /\ AllCallsOk(p)
        /\ ret[p] = Nil
        /\ Len(backups) = 1

OnDisk == backups \o (IF file = NoFile THEN << >> ELSE << file >>)

\* C5: over any sequence of runs, whatever step each fails at, a descriptor
\* is written to broker-info.subm only when no file is there, and every
\* descriptor ever written is still on disk, at broker-info.subm or as a
\* backup, in the order written.
C5_NeverOverwrittenOrLost ==
    /\ [](written = OnDisk)
    /\ [][written' # written => file = NoFile]_vars

C5_Witness ==
    \E p \in Procs :
        /\ Returned(p)
        /\ ret[p] = Nil
        /\ startFile[p] # NoFile
        /\ Len(written) = 3
        /\ Len(backups) = 2

Complete(d) ==
    /\ DOMAIN d = {"IPSecPSK", "ServiceDiscovery", "Components"}
    /\ d.Components # {}

AfterBackupErrors ==
    { "error validating existing globalCIDR configmap",
      "error creating globalCIDR configmap on Broker",
      "error writing the broker information" }

\* C6: a run that began with a descriptor at broker-info.subm and failed
\* after its backup step (at the check of the existing addressing config, at
\* the creation of the addressing config or at the write) leaves the prior
\* descriptor as the newest backup, and broker-info.subm absent or holding a
\* complete descriptor.
C6_BackupSurvivesLaterFailure ==
    \A p \in Procs :
        ( /\ Returned(p)
          /\ startFile[p] # NoFile
          /\ ret[p] \in AfterBackupErrors )
        => /\ Len(backups) > 0
           /\ backups[Len(backups)] = startFile[p]
           /\ file = NoFile \/ Complete(file)

C6_Witness ==
    \E p \in Procs :
        /\ Returned(p)
        /\ startFile[p] # NoFile
        /\ ret[p] = "error writing the broker information"
        /\ backups[Len(backups)] = startFile[p]

\* The phases open after the first i reporter calls.
Open(p, i) ==
    Cardinality({ j \in 1..i : events[p][j].kind = "Started" })
    - Cardinality({ j \in 1..i : events[p][j].kind = "EndedWith" })

\* C7: in every run each Started is followed by exactly one EndedWith before
\* the next Started and before Broker returns: never two phases open, never
\* an EndedWith without an open phase, no phase open at return.
C7_StartedEndedWithPaired ==
    \A p \in Procs :
        /\ \A i \in 0..Len(events[p]) : Open(p, i) \in {0, 1}
        /\ Returned(p) => Open(p, Len(events[p])) = 0

\* C8: with no descriptor path ever pinned and every broker-info.subm that
\* was there readable, every descriptor written carries the PSK of the first
\* descriptor written, whatever steps the runs in between failed at.
C8_PSKStableAcrossRuns ==
    (~everPinned /\ ~everUnreadable) =>
        \A i \in 1..Len(written) : written[i].IPSecPSK = written[1].IPSecPSK

ReuseMsg == Warned("Reusing IPsec PSK from existing broker-info.subm")
NewPSKMsg == Succeeded("A new IPsec PSK will be generated for broker-info.subm")
CreatingStarted(p) ==
    Count(p, Started("Creating broker-info.subm file")) > 0

\* C9: once the descriptor phase has started, a run with no pinned path has
\* tried to load broker-info.subm exactly once and reported exactly one of
\* the two messages: the reuse warning when the load succeeded, and the
\* descriptor is then built with the secret of that file; the new-PSK
\* message when the load failed, and the run went on to build the
\* descriptor.  A run with a pinned path never tries the load and reports
\* neither message; before the descriptor phase no run does either.
C9_PSKReuseDecision ==
    \A p \in Procs :
        LET loads == CallsOf(p, "datafile.NewFromFile")
            builds == CallsOf(p, "datafile.NewFromCluster")
        IN IF CreatingStarted(p) /\ request[p].IpsecSubmFile = ""
           THEN /\ Len(loads) = 1
                /\ Count(p, ReuseMsg) + Count(p, NewPSKMsg) = 1
                /\ loads[1].ok <=> Count(p, ReuseMsg) = 1
                /\ (loads[1].ok /\ subctlData[p] # NoFile)
                        => subctlData[p].IPSecPSK = startFile[p].IPSecPSK
                /\ (~loads[1].ok /\ subctlData[p] # NoFile)
                        => subctlData[p].IPSecPSK = runId[p]
                /\ Returned(p) => Len(builds) = 1
           ELSE /\ Len(loads) = 0
                /\ Count(p, ReuseMsg) + Count(p, NewPSKMsg) = 0

C9_Witness ==
    \E p \in Procs :
        /\ Returned(p)
        /\ ret[p] = Nil
        /\ request[p].IpsecSubmFile = ""
        /\ Count(p, ReuseMsg) = 1
        /\ file.IPSecPSK = startFile[p].IPSecPSK

Positions(p, op) == { i \in 1..Len(calls[p]) : calls[p][i].op = op }
ValidateOp == "globalnet.ValidateExistingGlobalNetworks"
CreateOp == "broker.CreateGlobalnetConfigMap"

\* C10: a run that returns nil has created the addressing config, with
\* globalnet enabled or not; with globalnet enabled every creation comes
\* after a check of the existing config that succeeded, so a failed check
\* leaves no creation; with globalnet disabled the check is never invoked.
C10_CheckBeforeCreate ==
    \A p \in Procs :
        /\ (Returned(p) /\ ret[p] = Nil) => Cardinality(Positions(p, CreateOp)) = 1
        /\ request[p].GlobalnetEnabled =>
            \A j \in Positions(p, CreateOp) :
                \E i \in Positions(p, ValidateOp) : i < j /\ calls[p][i].ok
        /\ ~request[p].GlobalnetEnabled => Positions(p, ValidateOp) = {}
        /\ \A i \in Positions(p, ValidateOp) :
                ~calls[p][i].ok => Positions(p, CreateOp) = {}

C10_Witness ==
    \E p \in Procs :
        /\ request[p].GlobalnetEnabled
        /\ Positions(p, ValidateOp) # {}
        /\ Positions(p, CreateOp) # {}
        /\ Returned(p)

\* C11: the component check lets a run through exactly when the requested
\* set is not empty and holds only service-discovery and connectivity; on
\* the empty set and on a set with any other name, globalnet too, Broker
\* returns the error wrapped as "invalid components parameter".
C11_ComponentValidation ==
    \A p \in Procs :
        pc[p] \notin {"idle", "isValidComponents"} =>
            ( InvalidComponents(request[p])
              <=> (Returned(p) /\ ret[p] = "invalid components parameter") )

C11_Witness ==
    \E p \in Procs :
        /\ Returned(p)
        /\ request[p].Components = {Connectivity, Globalnet}
        /\ ret[p] = "invalid components parameter"

FinalComponents(req) ==
    req.Components \cup (IF req.GlobalnetEnabled THEN {Globalnet} ELSE {})

\* C12: the descriptor a successful run has written holds the requested
\* components, plus globalnet exactly when globalnet is enabled, and its
\* ServiceDiscovery flag says whether service-discovery was requested.
C12_DescriptorComponents ==
    \A p \in Procs :
        (Returned(p) /\ ret[p] = Nil) =>
            /\ file # NoFile
            /\ file.Components = FinalComponents(request[p])
            /\ file.ServiceDiscovery = (ServiceDiscovery \in request[p].Components)

C12_Witness ==
    \E p \in Procs :
        /\ Returned(p)
        /\ ret[p] = Nil
        /\ request[p].GlobalnetEnabled
        /\ file.Components = {ServiceDiscovery, Connectivity, Globalnet}
        /\ file.ServiceDiscovery

\* C13: the component set handed to brokercr.Ensure is the component set of
\* the descriptor of the same run, globalnet included when it is enabled.
C13_BrokerCRCarriesFinalComponents ==
    \A p \in Procs :
        (Returned(p) /\ ret[p] = Nil) =>
            \A i \in Positions(p, "brokercr.Ensure") :
                calls[p][i].components = subctlData[p].Components

\* C14: the component check and the globalnet check leave the options as
\* the caller passed them, whether they succeed or return an error.
C14_ValidationLeavesOptions ==
    \A p \in Procs :
        ( \/ pc[p] = "ForCluster"
          \/ Returned(p) /\ ret[p] \in { "invalid components parameter",
                                           "invalid GlobalCIDR configuration" } )
        => options[p] = request[p]

\* The steps that can fail a run; a failed load of broker-info.subm cannot.
FailedCalls(p) ==
    { i \in 1..Len(calls[p]) :
        ~calls[p][i].ok /\ calls[p][i].op # "datafile.NewFromFile" }

EveryStepSucceeded(p) ==
    /\ ~InvalidComponents(request[p])
    /\ ~InvalidGlobalnet(request[p])
    /\ FailedCalls(p) = {}
    /\ \A op \in { "restconfig.ForCluster", "broker.Ensure", "image.ForOperator",
                   "submarinerop.Ensure", "brokercr.Ensure",
                   "datafile.NewFromCluster", "datafile.BackupIfExists",
                   "broker.CreateGlobalnetConfigMap", "datafile.WriteToFile" } :
            Cardinality(Positions(p, op)) = 1
    /\ request[p].GlobalnetEnabled => Cardinality(Positions(p, ValidateOp)) = 1

\* C17: Broker returns nil exactly when every step succeeded; the last
\* reporter call is then EndedWith(nil) and comes with the descriptor
\* written, the write being the last collaborator call.  In every other
\* case the error returned is not nil.
C17_NilIffEveryStepSucceeded ==
    \A p \in Procs :
        Returned(p) =>
            /\ ret[p] = Nil <=> EveryStepSucceeded(p)
            /\ ret[p] = Nil =>
                /\ events[p][Len(events[p])] = EndedWith(Nil)
                /\ calls[p][Len(calls[p])] = Call("datafile.WriteToFile", TRUE, {})
                /\ file = subctlData[p]
                /\ written # << >>
                /\ written[Len(written)] = subctlData[p]

C17_Witness ==
    \E p \in Procs :
        /\ Returned(p)
        /\ ret[p] = Nil
        /\ EveryStepSucceeded(p)
        /\ request[p].GlobalnetEnabled
        /\ startFile[p] # NoFile

EarlyErrors ==
    { "invalid components parameter", "invalid GlobalCIDR configuration",
      "the provided kubeconfig is invalid", "error setting up broker RBAC",
      "error getting Operator image", "error deploying the operator",
      "error deploying the broker",
      "error retrieving preparing the subm data file" }

\* C18: a run that fails at validation, at the kubeconfig, in a cluster
\* phase or at the descriptor build leaves broker-info.subm as it was when
\* the run began: no backup and no write has been tried.
C18_EarlyFailureLeavesFile ==
    \A p \in Procs :
        (Returned(p) /\ ret[p] \in EarlyErrors) =>
            /\ file = startFile[p]
            /\ Positions(p, "datafile.BackupIfExists") = {}
            /\ Positions(p, "datafile.WriteToFile") = {}

C18_Witness ==
    \E p \in Procs :
        /\ Returned(p)
        /\ ret[p] = "error retrieving preparing the subm data file"
        /\ startFile[p] # NoFile
        /\ file = startFile[p]

Severity(kind) ==
    CASE kind = "Succeeded" -> "Success"
      [] kind = "Warned" -> "Warning"
      [] kind = "Failed" -> "Failure"

\* C15: on the cliReporter, Succeeded, Warned and Failed with an empty
\* message leave the status as it was; with a message they add one
\* annotation of their own severity to the queue and change nothing else;
\* EndedWith closes the open unit as a success for nil and as a failure for
\* any other error.
C15_CliReporterCalls ==
    [][ /\ lastCall'.kind \in {"Succeeded", "Warned", "Failed"} =>
            IF lastCall'.message = ""
            THEN status' = status
            ELSE /\ Len(status'.queue) = Len(status.queue) + 1
                 /\ SubSeq(status'.queue, 1, Len(status.queue)) = status.queue
                 /\ status'.queue[Len(status'.queue)].severity
                        = Severity(lastCall'.kind)
                 /\ status'.open = status.open
                 /\ status'.current = status.current
                 /\ status'.last = status.last
        /\ (lastCall'.kind = "EndedWith" /\ status.open) =>
            /\ ~status'.open
            /\ status'.last.ended
            /\ status'.last.unit = status.current
            /\ status'.last.messages = status.queue
            /\ status'.last.result
                    = (IF lastCall'.err = Nil THEN "Success" ELSE "Failure")
      ]_vars

\* An empty Succeeded on a queue that holds a warning, with a unit closed
\* as a failure before.
C15_Witness ==
    /\ lastCall = [ kind |-> "Succeeded", message |-> "", err |-> Nil ]
    /\ status.open
    /\ Len(status.queue) = 1
    /\ status.queue[1].severity = "Warning"
    /\ status.last.ended
    /\ status.last.result = "Failure"
    /\ Len(status.last.messages) = 2

\* A descriptor that was written and is neither at broker-info.subm nor
\* among the backups.
Lost == { i \in 1..Len(written) : written[i] \notin Range(OnDisk) }

\* C16: with the statements of two invocations interleaved a written
\* descriptor can be replaced with no backup of it; while no invocation has
\* begun during another, every descriptor written is still on disk.
C16_LostOnlyWhenOverlapped ==
    ~overlapped => (Lost = {} /\ written = OnDisk)

\* Both invocations went through the backup step before either wrote; both
\* then wrote, and the first descriptor written is gone.
C16_Witness ==
    /\ overlapped
    /\ \A p \in Procs :
        /\ Returned(p)
        /\ ret[p] = Nil
        /\ startFile[p] = NoFile
    /\ backups = << >>
    /\ Len(written) = 2
    /\ Lost = {1}
    /\ file = written[2]

====
